---- MODULE Spec2Model ----
(***************************************************************************)
(* The things service of mainflux (things/service.go): the cache-first     *)
(* authorization path (CanAccess, Identify, hasThing) and the mutations    *)
(* that touch the two caches or the data they are populated from           *)
(* (AddThing, UpdateKey, RemoveThing, CreateChannel, RemoveChannel,        *)
(* Connect, Disconnect).                                                   *)
(*                                                                         *)
(* Every call of a handler to a collaborator that holds shared state (the  *)
(* thing cache, the channel cache, the thing repository, the channel       *)
(* repository) is one atomic step; the steps of calls running in different *)
(* goroutines interleave freely.  A handler that makes one such call is    *)
(* one action.  users.Identify and idp.ID hold no state of this service:   *)
(* they are folded into the step that follows them, their outcome drawn    *)
(* nondeterministically.  So is the owner the repositories check: a        *)
(* repository call either is carried out (`ok`) or returns an error and    *)
(* changes nothing (wrong owner, repository unreachable, timeout).         *)
(***************************************************************************)
EXTENDS Naturals, FiniteSets

\* ------------------------------------------------------------- bounds
MaxThings == 2
MaxChans  == 2
MaxKeys   == 2
MaxProcs  == 2
\* Things and channels in the runs where calls overlap.
OverlapThings == 1
OverlapChans  == 1

Things == 1..MaxThings
Chans  == 1..MaxChans
Keys   == 1..MaxKeys
Procs  == 1..MaxProcs

\* The empty string: no thing id / no key ("" in the source).
None == 0

\* ------------------------------------------------------------- errors
ErrNil                == "nil"
ErrMalformedEntity    == "ErrMalformedEntity"
ErrUnauthorizedAccess == "ErrUnauthorizedAccess"
ErrNotFound           == "ErrNotFound"
ErrConflict           == "ErrConflict"
\* Errors of the collaborators that are no error of this package: a miss of
\* the thing cache, and a repository that is unreachable or timed out.
ErrCacheMiss          == "ErrCacheMiss"
ErrUnavailable        == "ErrUnavailable"

VARIABLES
    things,         \* thing repository: thing id -> its key (None: no such thing)
    thingCount,     \* thing ids handed out by the identity provider so far
    channels,       \* channel repository: the ids of the existing channels
    chanCount,      \* channel ids handed out by the identity provider so far
    connections,    \* channel repository: the connected <<channel, thing>> pairs
    thingCache,     \* thing cache: key -> thing id (None: no entry)
    channelCache,   \* channel cache: the cached <<channel, thing>> memberships
    proc,           \* per goroutine: the call it is running and where it is
    run,            \* the runs explored: sequential or overlapping calls,
                    \* how many things and channels, and the duplicate
                    \* calls they end with, if any
    last            \* the call that has just returned, with what it returned
                    \* (NoCall after any step that is no return)

vars == <<things, thingCount, channels, chanCount, connections,
          thingCache, channelCache, proc, run, last>>

repoVars  == <<things, thingCount, channels, chanCount, connections, run>>
cacheVars == <<thingCache, channelCache>>

\* ------------------------------------------------- thing repository
\* ThingRepository.RetrieveByKey: the id of the thing holding `key`.
\* Keys are unique among things, so at most one thing holds it.
RetrieveByKey(key) ==
    IF \E t \in Things : things[t] = key /\ key # None
    THEN CHOOSE t \in Things : things[t] = key
    ELSE None

\* ThingRepository.Save / UpdateKey refuse a key another thing holds.
KeyTaken(key, id) == \E t \in Things : t # id /\ things[t] = key

\* ----------------------------------------------- channel repository
\* ChannelRepository.HasThing(chanID, key): the id of the thing that holds
\* `key` when it is connected to `chanID`, None (an error) otherwise.
HasThing(chanID, key) ==
    LET t == RetrieveByKey(key)
    IN  IF t # None /\ <<chanID, t>> \in connections THEN t ELSE None

\* ------------------------------------------------------ thing cache
\* ThingCache.ID(key): the cached id, None on a miss.
ThingCacheID(key) == thingCache[key]

\* ThingCache.Save(key, id): upsert, overwriting the key's entry.
ThingCacheSave(key, id) == [thingCache EXCEPT ![key] = id]

\* ThingCache.Remove(id): drops every entry whose value is `id`.
ThingCacheRemove(id) ==
    [k \in Keys |-> IF thingCache[k] = id THEN None ELSE thingCache[k]]

\* ---------------------------------------------------- channel cache
\* ChannelCache.HasThing(chanID, thingID)
ChannelCacheHasThing(chanID, thingID) == <<chanID, thingID>> \in channelCache

\* ChannelCache.Connect(chanID, thingID)
ChannelCacheConnect(chanID, thingID) == channelCache \cup {<<chanID, thingID>>}

\* ChannelCache.Disconnect(chanID, thingID)
ChannelCacheDisconnect(chanID, thingID) == channelCache \ {<<chanID, thingID>>}

\* ChannelCache.Remove(chanID): drops every membership of the channel.
ChannelCacheRemove(chanID) == {m \in channelCache : m[1] # chanID}

\* ------------------------------------------------- calls in flight
\* No call: what `prev` and `last` hold when there is nothing to report.
NoPrev == [op |-> "none", id |-> None, err |-> "nil", warm |-> FALSE]

\* A goroutine that runs no call.
\*   op, pc            the handler and the step it is at
\*   chan, key, thing  the arguments
\*   id                the local thingID / id
\*   hit               the id the thing cache gave for the key (None: a miss)
\*   warm              the caches held what the call asks for, or what it
\*                     is to invalidate, when it began
\*   prev              the call that had just returned when this one began
\*                     with no call in flight, if it bears on this one
\*   calls, writes     repository calls and cache writes made so far
Idle ==
    [op |-> "idle", pc |-> "idle", chan |-> None, key |-> None, thing |-> None,
     id |-> None, hit |-> None, warm |-> FALSE, prev |-> NoPrev,
     calls |-> 0, writes |-> 0]

AllIdle == \A p \in Procs : proc[p] = Idle

\* A call may begin: in a sequential run, only when no call is in flight.
MayBegin == run.seq => AllIdle

\* Goroutines have no identity: a call that begins takes the first free slot.
Free(p) ==
    /\ MayBegin
    /\ proc[p] = Idle /\ \A q \in Procs : q < p => proc[q] # Idle

\* What a returned call leaves in `last`: the call (op and arguments), its
\* results (id, err), and what it did on the way:
\*   authed   users.Identify accepted the token
\*   rerr     the error of its repository call (nil: none, or no call)
\* and hit, warm, prev, calls, writes as above.
Returned(op, chan, key, thing, id, err, authed, hit, warm, prev, calls, writes, rerr) ==
    [op |-> op, chan |-> chan, key |-> key, thing |-> thing, id |-> id,
     err |-> err, authed |-> authed, hit |-> hit, warm |-> warm, prev |-> prev,
     calls |-> calls, writes |-> writes, rerr |-> rerr]

\* `last` when the step just taken returned nothing to report: a step in
\* the middle of a call, or a one-step handler.
NoCall ==
    Returned("none", None, None, None, None, "nil", FALSE, None, FALSE, NoPrev,
             0, 0, "nil")

\* The record of a call whose token users.Identify rejected.
Rejected(op, chan, thing, warm) ==
    Returned(op, chan, None, thing, None, "ErrUnauthorizedAccess",
             FALSE, None, warm, NoPrev, 0, 0, "nil")

\* The record of the call goroutine p is running, returning (id, err).
ReturnedFrom(p, id, err, calls, writes, rerr) ==
    Returned(proc[p].op, proc[p].chan, proc[p].key, proc[p].thing, id, err,
             TRUE, proc[p].hit, proc[p].warm, proc[p].prev, calls, writes, rerr)

\* No duplicate calls: what `run.dup` holds in a run of any calls.
NoDup ==
    [op |-> "none", chan |-> None, key |-> None, id |-> None,
     thingCache |-> <<>>, channelCache |-> {}]

\* The runs where calls overlap freely, over a registry of OverlapThings
\* things and OverlapChans channels; and the sequential runs.
Overlapping ==
    [seq |-> FALSE, things |-> OverlapThings, chans |-> OverlapChans, dup |-> NoDup]
Sequential ==
    [seq |-> TRUE, things |-> MaxThings, chans |-> MaxChans, dup |-> NoDup]

\* New: empty repositories, empty caches, no call in flight.
New ==
    /\ things = [t \in Things |-> None]
    /\ thingCount = 0
    /\ channels = {}
    /\ chanCount = 0
    /\ connections = {}
    /\ thingCache = [k \in Keys |-> None]
    /\ channelCache = {}
    /\ proc = [p \in Procs |-> Idle]
    /\ last = NoCall

Init == New /\ run = Overlapping

SeqInit == New /\ run = Sequential

\* Ids a caller can name: the ones the identity provider has handed out.
KnownThings == 1..thingCount
KnownChans  == 1..chanCount

\* ---------------------------------------------- one-step handlers
\* AddThing(token, thing).  valid: thing.Validate(); tokOK: users.Identify;
\* key: thing.Key (None: the identity provider supplies `fresh`, a key
\* never used before); ok: idp.ID and things.Save succeeded.
AddThing(valid, tokOK, key, fresh, ok) ==
    LET id  == thingCount + 1
        k   == IF key = None THEN fresh ELSE key
        err == IF ~valid THEN ErrMalformedEntity
               ELSE IF ~tokOK THEN ErrUnauthorizedAccess
               ELSE IF ~ok THEN ErrUnavailable
               ELSE IF KeyTaken(k, id) THEN ErrConflict
               ELSE ErrNil
    IN  /\ MayBegin
        /\ thingCount < run.things
        /\ IF key = None
           THEN RetrieveByKey(fresh) = None /\ thingCache[fresh] = None
           ELSE fresh = key
        /\ IF err = ErrNil
           THEN /\ things' = [things EXCEPT ![id] = k]
                /\ thingCount' = id
           ELSE UNCHANGED <<things, thingCount>>
        /\ last' = NoCall
        /\ UNCHANGED <<channels, chanCount, connections, cacheVars, proc, run>>

\* UpdateKey(token, id, key): things.UpdateKey and nothing else; the thing
\* cache is not touched.
UpdateKey(tokOK, id, key, ok) ==
    LET err == IF ~tokOK THEN ErrUnauthorizedAccess
               ELSE IF ~ok THEN ErrUnavailable
               ELSE IF things[id] = None THEN ErrNotFound
               ELSE IF KeyTaken(key, id) THEN ErrConflict
               ELSE ErrNil
    IN  /\ MayBegin
        /\ things' = IF err = ErrNil THEN [things EXCEPT ![id] = key] ELSE things
        /\ last' = NoCall
        /\ UNCHANGED <<thingCount, channels, chanCount, connections, cacheVars, proc, run>>

\* CreateChannel(token, channel)
CreateChannel(tokOK, ok) ==
    LET id  == chanCount + 1
        err == IF ~tokOK THEN ErrUnauthorizedAccess
               ELSE IF ~ok THEN ErrUnavailable
               ELSE ErrNil
    IN  /\ MayBegin
        /\ chanCount < run.chans
        /\ IF err = ErrNil
           THEN /\ channels' = channels \cup {id}
                /\ chanCount' = id
           ELSE UNCHANGED <<channels, chanCount>>
        /\ last' = NoCall
        /\ UNCHANGED <<things, thingCount, connections, cacheVars, proc, run>>

\* Connect(token, chanID, thingID): channels.Connect and nothing else.
Connect(tokOK, chanID, thingID, ok) ==
    LET err == IF ~tokOK THEN ErrUnauthorizedAccess
               ELSE IF ~ok THEN ErrUnavailable
               ELSE IF chanID \notin channels \/ things[thingID] = None
                    THEN ErrNotFound
               ELSE ErrNil
    IN  /\ MayBegin
        /\ connections' = IF err = ErrNil
                          THEN connections \cup {<<chanID, thingID>>}
                          ELSE connections
        /\ last' = NoCall
        /\ UNCHANGED <<things, thingCount, channels, chanCount, cacheVars, proc, run>>

\* A call that begins: goroutine p runs `op` with these arguments.
Running(op, pc, chan, key, thing, warm) ==
    [Idle EXCEPT !.op = op, !.pc = pc, !.chan = chan, !.key = key,
                 !.thing = thing, !.warm = warm]

\* ------------------------------------------------------ Disconnect
\* A Disconnect that leaves the channel cache alone.
DisconnectBegin_NoInvalidate(p, tokOK, chanID, thingID) ==
    /\ Free(p)
    /\ IF tokOK
       THEN /\ proc' = [proc EXCEPT ![p] =
                          Running("Disconnect", "repo", chanID, None, thingID,
                                  ChannelCacheHasThing(chanID, thingID))]
            /\ last' = NoCall
       ELSE /\ last' = Rejected("Disconnect", chanID, thingID,
                                ChannelCacheHasThing(chanID, thingID))
            /\ UNCHANGED proc
    /\ UNCHANGED <<repoVars, cacheVars>>

\* Disconnect(token, chanID, thingID), first step: users.Identify, then
\* channelCache.Disconnect.  A rejected token returns at once.
DisconnectBegin(p, tokOK, chanID, thingID) ==
    /\ Free(p)
    /\ IF tokOK
       THEN /\ channelCache' = ChannelCacheDisconnect(chanID, thingID)
            /\ proc' = [proc EXCEPT ![p] =
                          Running("Disconnect", "repo", chanID, None, thingID,
                                  ChannelCacheHasThing(chanID, thingID))]
            /\ last' = NoCall
       ELSE /\ last' = Rejected("Disconnect", chanID, thingID,
                              ChannelCacheHasThing(chanID, thingID))
            /\ UNCHANGED <<channelCache, proc, run>>
    /\ UNCHANGED <<repoVars, thingCache>>

\* Disconnect, second step: channels.Disconnect, whose error is returned.
DisconnectRepo(p, ok) ==
    LET c   == proc[p].chan
        t   == proc[p].thing
        err == IF ~ok THEN ErrUnavailable
               ELSE IF <<c, t>> \notin connections THEN ErrNotFound
               ELSE ErrNil
    IN  /\ proc[p].op = "Disconnect" /\ proc[p].pc = "repo"
        /\ connections' = IF err = ErrNil THEN connections \ {<<c, t>>}
                          ELSE connections
        /\ last' = ReturnedFrom(p, None, err, 1, 1, err)
        /\ proc' = [proc EXCEPT ![p] = Idle]
        /\ UNCHANGED <<things, thingCount, channels, chanCount, cacheVars, run>>

\* ----------------------------------------------------- RemoveThing
\* A RemoveThing that invalidates before it looks at the token.
RemoveThingBegin_InvalidateFirst(p, tokOK, id) ==
    /\ Free(p)
    /\ thingCache' = ThingCacheRemove(id)
    /\ IF tokOK
       THEN /\ proc' = [proc EXCEPT ![p] =
                          Running("RemoveThing", "repo", None, None, id,
                                  \E k \in Keys : ThingCacheID(k) = id)]
            /\ last' = NoCall
       ELSE /\ last' = Rejected("RemoveThing", None, id,
                                \E k \in Keys : ThingCacheID(k) = id)
            /\ UNCHANGED proc
    /\ UNCHANGED <<repoVars, channelCache>>

\* RemoveThing(token, id), first step: users.Identify, then thingCache.Remove.
RemoveThingBegin(p, tokOK, id) ==
    /\ Free(p)
    /\ IF tokOK
       THEN /\ thingCache' = ThingCacheRemove(id)
            /\ proc' = [proc EXCEPT ![p] =
                          Running("RemoveThing", "repo", None, None, id,
                                  \E k \in Keys : ThingCacheID(k) = id)]
            /\ last' = NoCall
       ELSE /\ last' = Rejected("RemoveThing", None, id,
                              \E k \in Keys : ThingCacheID(k) = id)
            /\ UNCHANGED <<thingCache, proc, run>>
    /\ UNCHANGED <<repoVars, channelCache>>

\* RemoveThing, second step: things.Remove, whose error is returned.  The
\* thing's connections go with it.  `last.key` keeps the key the thing held.
RemoveThingRepo(p, ok) ==
    LET t   == proc[p].thing
        err == IF ~ok THEN ErrUnavailable ELSE ErrNil
    IN  /\ proc[p].op = "RemoveThing" /\ proc[p].pc = "repo"
        /\ IF err = ErrNil
           THEN /\ things' = [things EXCEPT ![t] = None]
                /\ connections' = {m \in connections : m[2] # t}
           ELSE UNCHANGED <<things, connections>>
        /\ last' = [ReturnedFrom(p, None, err, 1, 1, err)
                      EXCEPT !.key = things[t]]
        /\ proc' = [proc EXCEPT ![p] = Idle]
        /\ UNCHANGED <<thingCount, channels, chanCount, cacheVars, run>>

\* --------------------------------------------------- RemoveChannel
\* A RemoveChannel that leaves the channel cache alone.
RemoveChannelBegin_NoInvalidate(p, tokOK, id) ==
    /\ Free(p)
    /\ IF tokOK
       THEN /\ proc' = [proc EXCEPT ![p] =
                          Running("RemoveChannel", "repo", id, None, None,
                                  \E m \in channelCache : m[1] = id)]
            /\ last' = NoCall
       ELSE /\ last' = Rejected("RemoveChannel", id, None,
                                \E m \in channelCache : m[1] = id)
            /\ UNCHANGED proc
    /\ UNCHANGED <<repoVars, cacheVars>>

\* RemoveChannel(token, id), first step: users.Identify, then
\* channelCache.Remove.
RemoveChannelBegin(p, tokOK, id) ==
    /\ Free(p)
    /\ IF tokOK
       THEN /\ channelCache' = ChannelCacheRemove(id)
            /\ proc' = [proc EXCEPT ![p] =
                          Running("RemoveChannel", "repo", id, None, None,
                                  \E m \in channelCache : m[1] = id)]
            /\ last' = NoCall
       ELSE /\ last' = Rejected("RemoveChannel", id, None,
                              \E m \in channelCache : m[1] = id)
            /\ UNCHANGED <<channelCache, proc, run>>
    /\ UNCHANGED <<repoVars, thingCache>>

\* RemoveChannel, second step: channels.Remove, whose error is returned.
RemoveChannelRepo(p, ok) ==
    LET c   == proc[p].chan
        err == IF ~ok THEN ErrUnavailable ELSE ErrNil
    IN  /\ proc[p].op = "RemoveChannel" /\ proc[p].pc = "repo"
        /\ IF err = ErrNil
           THEN /\ channels' = channels \ {c}
                /\ connections' = {m \in connections : m[1] # c}
           ELSE UNCHANGED <<channels, connections>>
        /\ last' = ReturnedFrom(p, None, err, 1, 1, err)
        /\ proc' = [proc EXCEPT ![p] = Idle]
        /\ UNCHANGED <<things, thingCount, chanCount, cacheVars, run>>

\* ------------------------------------------------------- CanAccess
\* hasThing's result once both cache lookups are made: the cached id with
\* a nil error when the channel cache holds the pair, ErrUnauthorizedAccess
\* otherwise.
hasThingErr(connected) == IF connected THEN ErrNil ELSE ErrUnauthorizedAccess

\* A CanAccess that takes hasThing's ErrUnauthorizedAccess for a refusal.
AfterHasThing_DenyOnMiss(err) ==
    IF err = ErrNil THEN "return"
    ELSE IF err = ErrUnauthorizedAccess THEN "deny"
    ELSE "fallback"

\* A CanAccess that asks the repository whatever hasThing found.
AfterHasThing_AlwaysFallback(err) == "fallback"

\* What CanAccess does with hasThing's error: return the cached id when it
\* is nil, ask the repository on any other ("fallback").  It never denies
\* here ("deny" is what a handler trusting the caches for a refusal would do).
AfterHasThing(err) == IF err = ErrNil THEN "return" ELSE "fallback"

\* A handler that hands the repository's error to its caller.
DeniedError_Propagate(err) == err

\* The error CanAccess and Identify return when the repository call failed
\* with `err`: always ErrUnauthorizedAccess.
DeniedError(err) == ErrUnauthorizedAccess

\* The call that has just returned when a call for (chanID, key) begins
\* (chanID is None for Identify), if no call is in flight and it bears on
\* this one: a CanAccess with the same arguments that succeeded, a
\* Disconnect from or a RemoveChannel of the same channel that got as far
\* as the cache, a RemoveThing that removed the thing that held the key.
\* `id` is the thing it returned, disconnected or removed, `warm` its warm.
Prev(chanID, key) ==
    IF ~AllIdle \/ ~last.authed THEN NoPrev
    ELSE IF /\ last.op = "CanAccess" /\ last.err = ErrNil
            /\ last.chan = chanID /\ last.key = key
         THEN [op |-> last.op, id |-> last.id, err |-> last.err, warm |-> last.warm]
    ELSE IF last.op \in {"Disconnect", "RemoveChannel"} /\ last.chan = chanID
         THEN [op |-> last.op, id |-> last.thing, err |-> last.err,
               warm |-> last.warm]
    ELSE IF last.op = "RemoveThing" /\ last.err = ErrNil /\ last.key = key
         THEN [op |-> last.op, id |-> last.thing, err |-> last.err,
               warm |-> last.warm]
    ELSE NoPrev

\* Whether both caches hold the answer for (chanID, key).
Warm(chanID, key) ==
    /\ ThingCacheID(key) # None
    /\ ChannelCacheHasThing(chanID, ThingCacheID(key))

\* CanAccess(chanID, key), first step: hasThing's thingCache.ID(key).  On a
\* miss hasThing returns the error, and CanAccess goes to the repository.
CanAccessBegin(p, chanID, key) ==
    LET id   == ThingCacheID(key)
        err  == IF id = None THEN ErrCacheMiss ELSE ErrNil
        next == IF err # ErrNil THEN AfterHasThing(err) ELSE "hasThing"
        me   == [Running("CanAccess", next, chanID, key, None, Warm(chanID, key))
                   EXCEPT !.id = id, !.hit = id, !.prev = Prev(chanID, key)]
    IN  /\ Free(p)
        /\ proc' = [proc EXCEPT ![p] = me]
        /\ last' = NoCall
        /\ UNCHANGED <<repoVars, cacheVars>>

\* CanAccess, second step: hasThing's channelCache.HasThing(chanID, thingID),
\* and CanAccess's return of the cached id when it holds.
CanAccessCached(p) ==
    LET connected == ChannelCacheHasThing(proc[p].chan, proc[p].id)
        next      == AfterHasThing(hasThingErr(connected))
    IN  /\ proc[p].op = "CanAccess" /\ proc[p].pc = "hasThing"
        /\ CASE next = "return" ->
                  /\ last' = ReturnedFrom(p, proc[p].id, ErrNil,
                                          proc[p].calls, proc[p].writes, ErrNil)
                  /\ proc' = [proc EXCEPT ![p] = Idle]
             [] next = "deny" ->
                  /\ last' = ReturnedFrom(p, None, ErrUnauthorizedAccess,
                                          proc[p].calls, proc[p].writes, ErrNil)
                  /\ proc' = [proc EXCEPT ![p] = Idle]
             [] OTHER ->
                  /\ proc' = [proc EXCEPT ![p].pc = next, ![p].id = None]
                  /\ last' = NoCall
        /\ UNCHANGED <<repoVars, cacheVars>>

\* A CanAccess that drops the key's thing-cache entry when the repository
\* refuses.
CanAccessRepo_EvictOnDeny(p, ok) ==
    LET c   == proc[p].chan
        k   == proc[p].key
        id  == IF ok THEN HasThing(c, k) ELSE None
        err == IF ~ok THEN ErrUnavailable
               ELSE IF RetrieveByKey(k) = None THEN ErrNotFound
               ELSE IF id = None THEN ErrUnauthorizedAccess
               ELSE ErrNil
    IN  /\ proc[p].op = "CanAccess" /\ proc[p].pc = "fallback"
        /\ IF err # ErrNil
           THEN /\ last' = ReturnedFrom(p, None, DeniedError(err),
                                        proc[p].calls + 1, proc[p].writes, err)
                /\ proc' = [proc EXCEPT ![p] = Idle]
                /\ thingCache' = [thingCache EXCEPT ![k] = None]
           ELSE /\ proc' = [proc EXCEPT ![p].pc = "save", ![p].id = id,
                                        ![p].calls = @ + 1]
                /\ last' = NoCall
                /\ UNCHANGED thingCache
        /\ UNCHANGED <<repoVars, channelCache>>

\* CanAccess, third step: channels.HasThing(chanID, key).  ok: the
\* repository answered.  Any error returns ("", ErrUnauthorizedAccess).
CanAccessRepo(p, ok) ==
    LET c   == proc[p].chan
        k   == proc[p].key
        id  == IF ok THEN HasThing(c, k) ELSE None
        err == IF ~ok THEN ErrUnavailable
               ELSE IF RetrieveByKey(k) = None THEN ErrNotFound
               ELSE IF id = None THEN ErrUnauthorizedAccess
               ELSE ErrNil
    IN  /\ proc[p].op = "CanAccess" /\ proc[p].pc = "fallback"
        /\ IF err # ErrNil
           THEN /\ last' = ReturnedFrom(p, None, DeniedError(err),
                                        proc[p].calls + 1, proc[p].writes, err)
                /\ proc' = [proc EXCEPT ![p] = Idle]
           ELSE /\ proc' = [proc EXCEPT ![p].pc = "save", ![p].id = id,
                                        ![p].calls = @ + 1]
                /\ last' = NoCall
        /\ UNCHANGED <<repoVars, cacheVars>>

\* A CanAccess whose save is no upsert: saving a key the thing cache
\* already resolves to the same id drops the entry.
CanAccessSave_DropDuplicate(p) ==
    /\ proc[p].op = "CanAccess" /\ proc[p].pc = "save"
    /\ thingCache' = IF ThingCacheID(proc[p].key) = proc[p].id
                     THEN [thingCache EXCEPT ![proc[p].key] = None]
                     ELSE ThingCacheSave(proc[p].key, proc[p].id)
    /\ proc' = [proc EXCEPT ![p].pc = "connect", ![p].writes = @ + 1]
    /\ last' = NoCall
    /\ UNCHANGED <<repoVars, channelCache>>

\* CanAccess, fourth step: thingCache.Save(key, thingID).
CanAccessSave(p) ==
    /\ proc[p].op = "CanAccess" /\ proc[p].pc = "save"
    /\ thingCache' = ThingCacheSave(proc[p].key, proc[p].id)
    /\ proc' = [proc EXCEPT ![p].pc = "connect", ![p].writes = @ + 1]
    /\ last' = NoCall
    /\ UNCHANGED <<repoVars, channelCache>>

\* A CanAccess that returns the id without channelCache.Connect.
CanAccessConnect_NoPopulate(p) ==
    /\ proc[p].op = "CanAccess" /\ proc[p].pc = "connect"
    /\ last' = ReturnedFrom(p, proc[p].id, ErrNil,
                            proc[p].calls, proc[p].writes, ErrNil)
    /\ proc' = [proc EXCEPT ![p] = Idle]
    /\ UNCHANGED <<repoVars, cacheVars>>

\* CanAccess, fifth step: channelCache.Connect(chanID, thingID), and the
\* return of the id.
CanAccessConnect(p) ==
    /\ proc[p].op = "CanAccess" /\ proc[p].pc = "connect"
    /\ channelCache' = ChannelCacheConnect(proc[p].chan, proc[p].id)
    /\ last' = ReturnedFrom(p, proc[p].id, ErrNil,
                            proc[p].calls, proc[p].writes + 1, ErrNil)
    /\ proc' = [proc EXCEPT ![p] = Idle]
    /\ UNCHANGED <<repoVars, thingCache>>

\* -------------------------------------------------------- Identify
\* An Identify that asks the repository also when the thing cache holds
\* the key.
IdentifyBegin_AlwaysRetrieve(p, key) ==
    LET id == ThingCacheID(key)
        me == [Running("Identify", "retrieve", None, key, None, id # None)
                 EXCEPT !.hit = id, !.prev = Prev(None, key)]
    IN  /\ Free(p)
        /\ proc' = [proc EXCEPT ![p] = me]
        /\ last' = NoCall
        /\ UNCHANGED <<repoVars, cacheVars>>

\* Identify(key), first step: thingCache.ID(key); a hit returns the id.
IdentifyBegin(p, key) ==
    LET id == ThingCacheID(key)
        me == [Running("Identify", "retrieve", None, key, None, id # None)
                 EXCEPT !.hit = id, !.prev = Prev(None, key)]
    IN  /\ Free(p)
        /\ IF id # None
           THEN /\ last' = Returned("Identify", None, key, None, id, ErrNil,
                                    TRUE, id, TRUE, me.prev, 0, 0, ErrNil)
                /\ UNCHANGED proc
           ELSE /\ proc' = [proc EXCEPT ![p] = me]
                /\ last' = NoCall
        /\ UNCHANGED <<repoVars, cacheVars>>

\* Identify, second step: things.RetrieveByKey(key).  Any error returns
\* ("", ErrUnauthorizedAccess).
IdentifyRetrieve(p, ok) ==
    LET id  == IF ok THEN RetrieveByKey(proc[p].key) ELSE None
        err == IF ~ok THEN ErrUnavailable
               ELSE IF id = None THEN ErrNotFound
               ELSE ErrNil
    IN  /\ proc[p].op = "Identify" /\ proc[p].pc = "retrieve"
        /\ IF err # ErrNil
           THEN /\ last' = ReturnedFrom(p, None, DeniedError(err),
                                        proc[p].calls + 1, proc[p].writes, err)
                /\ proc' = [proc EXCEPT ![p] = Idle]
           ELSE /\ proc' = [proc EXCEPT ![p].pc = "save", ![p].id = id,
                                        ![p].calls = @ + 1]
                /\ last' = NoCall
        /\ UNCHANGED <<repoVars, cacheVars>>

\* Identify, third step: thingCache.Save(key, id), and the return of the id.
IdentifySave(p) ==
    /\ proc[p].op = "Identify" /\ proc[p].pc = "save"
    /\ thingCache' = ThingCacheSave(proc[p].key, proc[p].id)
    /\ last' = ReturnedFrom(p, proc[p].id, ErrNil,
                            proc[p].calls, proc[p].writes + 1, ErrNil)
    /\ proc' = [proc EXCEPT ![p] = Idle]
    /\ UNCHANGED <<repoVars, channelCache>>

\* ------------------------------------------------- specifications
\* A call begins (a one-step handler runs whole).
Begin ==
    \/ \E valid, tokOK, ok \in BOOLEAN, key \in Keys \cup {None}, fresh \in Keys :
          AddThing(valid, tokOK, key, fresh, ok)
    \/ \E tokOK, ok \in BOOLEAN, id \in KnownThings, key \in Keys :
          UpdateKey(tokOK, id, key, ok)
    \/ \E tokOK, ok \in BOOLEAN : CreateChannel(tokOK, ok)
    \/ \E tokOK, ok \in BOOLEAN, c \in KnownChans, t \in KnownThings :
          Connect(tokOK, c, t, ok)
    \/ \E p \in Procs, tokOK \in BOOLEAN, c \in KnownChans, t \in KnownThings :
          DisconnectBegin(p, tokOK, c, t)
    \/ \E p \in Procs, tokOK \in BOOLEAN, t \in KnownThings :
          RemoveThingBegin(p, tokOK, t)
    \/ \E p \in Procs, tokOK \in BOOLEAN, c \in KnownChans :
          RemoveChannelBegin(p, tokOK, c)
    \/ \E p \in Procs, c \in KnownChans, k \in Keys : CanAccessBegin(p, c, k)
    \/ \E p \in Procs, k \in Keys : IdentifyBegin(p, k)

\* A call in flight takes its next step.
Step ==
    \/ \E p \in Procs, ok \in BOOLEAN : DisconnectRepo(p, ok)
    \/ \E p \in Procs, ok \in BOOLEAN : RemoveThingRepo(p, ok)
    \/ \E p \in Procs, ok \in BOOLEAN : RemoveChannelRepo(p, ok)
    \/ \E p \in Procs : CanAccessCached(p)
    \/ \E p \in Procs, ok \in BOOLEAN : CanAccessRepo(p, ok)
    \/ \E p \in Procs : CanAccessSave(p)
    \/ \E p \in Procs : CanAccessConnect(p)
    \/ \E p \in Procs, ok \in BOOLEAN : IdentifyRetrieve(p, ok)
    \/ \E p \in Procs : IdentifySave(p)

Next == Begin \/ Step

\* Calls overlap freely.
Spec == Init /\ [][Next]_vars

\* The sequential runs: a call begins only when no call is in flight.
SeqSpec == SeqInit /\ [][Next]_vars

\* ------------------------------------------------------------ claims
\* The call that has just returned is a CanAccess / an Identify.
CanAccessReturned == last.op = "CanAccess"
IdentifyReturned  == last.op = "Identify"

\* C1: CanAccess returns ErrUnauthorizedAccess only if, in that same call,
\* channels.HasThing was called and returned an error; the caches alone
\* never deny.
C1_DeniedOnlyByRepository ==
    (CanAccessReturned /\ last.err = ErrUnauthorizedAccess)
        => (last.calls = 1 /\ last.rerr # ErrNil)

\* C1 witness: a CanAccess was denied although the thing cache knows the key:
\* the channel cache missed, the repository was asked, and it refused.
C1_Witness ==
    /\ CanAccessReturned /\ last.err = ErrUnauthorizedAccess
    /\ ThingCacheID(last.key) # None
    /\ last.calls = 1 /\ last.rerr = ErrUnauthorizedAccess

\* C2: in a sequential run, a CanAccess(chanID, key) that begins with
\* key -> d in the thing cache and (chanID, d) in the channel cache returns
\* (d, nil) with no repository call and no cache write.
C2_WarmFastPath ==
    (CanAccessReturned /\ last.warm)
        => /\ last.err = ErrNil
           /\ last.id # None /\ last.id = ThingCacheID(last.key)
           /\ ChannelCacheHasThing(last.chan, last.id)
           /\ last.calls = 0 /\ last.writes = 0

\* C2 witness: a warm CanAccess returned, and the repository no longer
\* agrees with the caches (the thing's key was rotated away).
C2_Witness ==
    /\ CanAccessReturned /\ last.warm /\ last.err = ErrNil
    /\ RetrieveByKey(last.key) # last.id

\* C3: in a sequential run, a successful CanAccess(C, K) leaves K -> D in
\* the thing cache and (C, D) in the channel cache, and the CanAccess(C, K)
\* that follows it returns (D, nil) without calling the repository: it
\* succeeds whatever the repository would have answered.
C3_SecondCallFromCache ==
    /\ (CanAccessReturned /\ last.err = ErrNil)
          => /\ ThingCacheID(last.key) = last.id
             /\ ChannelCacheHasThing(last.chan, last.id)
    /\ (CanAccessReturned /\ last.prev.op = "CanAccess")
          => /\ last.err = ErrNil /\ last.id = last.prev.id
             /\ last.calls = 0

\* C3 witness: the second of two CanAccess(C, K) in a row returned the
\* thing the first had returned.
C3_Witness ==
    /\ CanAccessReturned /\ last.prev.op = "CanAccess"
    /\ last.err = ErrNil /\ last.id = last.prev.id /\ last.id # None

\* The CanAccess that has just returned followed a Disconnect(token, C, D)
\* that returned nil, D holds the key it was given, and the repository does
\* not connect D to C.
AfterDisconnect ==
    /\ CanAccessReturned
    /\ last.prev.op = "Disconnect" /\ last.prev.err = ErrNil
    /\ RetrieveByKey(last.key) = last.prev.id
    /\ <<last.chan, last.prev.id>> \notin connections

\* C4: in a sequential run, the CanAccess(C, key-of-D) that follows a
\* Disconnect(token, C, D) that returned nil returns ErrUnauthorizedAccess
\* (D being disconnected from C in the repository), whatever the caches
\* held before the Disconnect.
C4_DeniedAfterDisconnect ==
    AfterDisconnect => (last.err = ErrUnauthorizedAccess /\ last.id = None)

\* C5: in a sequential run, the CanAccess(C, K) that follows a Disconnect
\* (token, C, D) which invalidated (C, D), with the thing cache resolving K
\* to D, is not answered from the caches: it calls channels.HasThing, and
\* when that returns an error (the repository is unreachable) it returns
\* ErrUnauthorizedAccess.
C5_FailClosedAfterInvalidation ==
    (/\ CanAccessReturned
     /\ last.prev.op = "Disconnect"
     /\ ThingCacheID(last.key) = last.prev.id)
        => /\ last.calls = 1
           /\ last.rerr # ErrNil => (last.err = ErrUnauthorizedAccess /\ last.id = None)

\* C5 witness: the channel cache held (C, D) before the Disconnect, the
\* Disconnect's own repository call failed (D is still connected to C), the
\* thing cache still resolves the key to D, the repository was unreachable,
\* and the CanAccess was denied.
C5_Witness ==
    /\ CanAccessReturned
    /\ last.prev.op = "Disconnect" /\ last.prev.err = ErrUnavailable
    /\ last.prev.warm
    /\ ThingCacheID(last.key) = last.prev.id
    /\ RetrieveByKey(last.key) = last.prev.id
    /\ <<last.chan, last.prev.id>> \in connections
    /\ last.rerr = ErrUnavailable
    /\ last.err = ErrUnauthorizedAccess

\* C6: in a sequential run, Identify(K) returns what it would return with
\* empty caches: the id of the thing that holds K in the repository, or
\* ErrUnauthorizedAccess when no thing holds K (the repository answering).
C6_IdentifyAsCold ==
    (IdentifyReturned /\ last.rerr # ErrUnavailable)
        => IF RetrieveByKey(last.key) # None
           THEN last.err = ErrNil /\ last.id = RetrieveByKey(last.key)
           ELSE last.err = ErrUnauthorizedAccess /\ last.id = None

\* C7: under any interleaving of calls, a CanAccess(C, key-of-D) that
\* begins once a Disconnect(token, C, D) has returned nil and no call is in
\* flight returns ErrUnauthorizedAccess (D holding the key and being
\* disconnected from C in the repository when it returns): access is never
\* granted to a disconnected device.
C7_NoAccessAfterDisconnect ==
    AfterDisconnect => last.err # ErrNil

\* C8: under any interleaving of calls, an Identify(K) or CanAccess(C, K)
\* that begins once a RemoveThing(token, D) of the thing D that held K has
\* returned nil and no call is in flight returns ErrUnauthorizedAccess (no
\* thing holding K in the repository): access is never granted to a
\* revoked key.
C8_NoAccessAfterRemoveThing ==
    (/\ CanAccessReturned \/ IdentifyReturned
     /\ last.prev.op = "RemoveThing"
     /\ RetrieveByKey(last.key) = None)
        => (last.err = ErrUnauthorizedAccess /\ last.id = None)

\* The RemoveChannel(token, C) that has just returned had its token accepted.
RemoveChannelReturned == last.op = "RemoveChannel" /\ last.authed

\* A step of a RemoveChannel(token, C) whose token was accepted leaves the
\* memberships of every other channel as they were.
RemoveChannelKeepsOthers ==
    \A p \in Procs :
        (proc[p].op = "RemoveChannel" \/ proc'[p].op = "RemoveChannel") =>
            LET c == IF proc[p].op = "RemoveChannel"
                     THEN proc[p].chan ELSE proc'[p].chan
            IN  {m \in channelCache' : m[1] # c} = {m \in channelCache : m[1] # c}

\* C9: in a sequential run, once RemoveChannel(token, C) has returned for an
\* accepted token the channel cache holds no membership of C, its steps
\* leave the memberships of the other channels unchanged, and the
\* CanAccess(C, k) that follows calls the repository, for every key k.
C9_ChannelInvalidated ==
    /\ [](RemoveChannelReturned => ~ \E m \in channelCache : m[1] = last.chan)
    /\ []((CanAccessReturned /\ last.prev.op = "RemoveChannel") => last.calls = 1)
    /\ [][RemoveChannelKeepsOthers]_vars

\* C9 witness: RemoveChannel(token, C) returned, the channel cache held
\* memberships of C when it began, and still holds one of another channel.
C9_Witness ==
    /\ RemoveChannelReturned /\ last.warm
    /\ \E m \in channelCache : m[1] # last.chan

\* C10: a CanAccess or Identify returns either (id, nil) with a thing id, or
\* ("", ErrUnauthorizedAccess); whatever error the repository returned, the
\* caller gets ErrUnauthorizedAccess.
C10_OnlyUnauthorized ==
    (CanAccessReturned \/ IdentifyReturned)
        => /\ \/ last.id # None /\ last.err = ErrNil
              \/ last.id = None /\ last.err = ErrUnauthorizedAccess
           /\ last.rerr # ErrNil => last.err = ErrUnauthorizedAccess

\* C10 witness: the repository was unreachable and the caller of CanAccess,
\* whose key the thing cache did not know, got ErrUnauthorizedAccess.
C10_Witness ==
    /\ CanAccessReturned
    /\ ThingCacheID(last.key) = None
    /\ last.rerr = ErrUnavailable
    /\ last.err = ErrUnauthorizedAccess /\ last.id = None

\* The CanAccess(C, key) that has just returned found the key in the thing
\* cache (key -> d) and began with no (C, d) in the channel cache.
MembershipMissed ==
    CanAccessReturned /\ last.hit # None /\ ~last.warm

\* C11: in a sequential run, a CanAccess(C, key) for which the thing cache
\* resolves key to d, the channel cache does not hold (C, d), and the
\* repository (answering) has the thing that holds key connected to C,
\* returns that thing's id with a nil error after one repository call, and
\* leaves (C, id) in the channel cache.
C11_MembershipMissNotDenial ==
    (MembershipMissed /\ HasThing(last.chan, last.key) # None
                      /\ last.rerr # ErrUnavailable)
        => /\ last.err = ErrNil
           /\ last.id = HasThing(last.chan, last.key)
           /\ last.calls = 1
           /\ ChannelCacheHasThing(last.chan, last.id)

\* C11 witness: the thing cache resolved the key to a thing that is not the
\* one the repository gave, the channel cache had no membership for it, and
\* the CanAccess returned the repository's thing.
C11_Witness ==
    /\ MembershipMissed
    /\ last.err = ErrNil /\ last.id = HasThing(last.chan, last.key)
    /\ last.id # last.hit
    /\ ChannelCacheHasThing(last.chan, last.id)
    /\ ~ChannelCacheHasThing(last.chan, last.hit)

\* The calls that invalidate.
Invalidating == {"Disconnect", "RemoveThing", "RemoveChannel"}

\* The caches hold an entry that `op` on (chan, thing) is to invalidate.
HoldsEntryOf(op, chan, thing) ==
    CASE op = "Disconnect"    -> ChannelCacheHasThing(chan, thing)
      [] op = "RemoveThing"   -> \E k \in Keys : ThingCacheID(k) = thing
      [] op = "RemoveChannel" -> \E m \in channelCache : m[1] = chan
      [] OTHER                -> FALSE

\* C12: in a sequential run, a Disconnect, RemoveThing or RemoveChannel that
\* began with an entry to invalidate in the caches still has it there while
\* its repository mutation has not been made, and still has it there when
\* it returns an error because the repository mutation failed.
C12_InvalidateAfterSuccess ==
    /\ \A p \in Procs :
          (proc[p].op \in Invalidating /\ proc[p].pc = "repo" /\ proc[p].warm)
              => HoldsEntryOf(proc[p].op, proc[p].chan, proc[p].thing)
    /\ (last.op \in Invalidating /\ last.authed /\ last.warm
                                 /\ last.err # ErrNil)
          => HoldsEntryOf(last.op, last.chan, last.thing)

\* C13: in a sequential run, a CanAccess(C, k) that returns (d, nil) returns
\* the thing that holds k in the repository at that moment, and the
\* repository has it connected to C at that moment.
C13_GrantBackedByRepository ==
    (CanAccessReturned /\ last.err = ErrNil)
        => /\ last.id # None
           /\ RetrieveByKey(last.key) = last.id
           /\ <<last.chan, last.id>> \in connections

\* The calls of the read path.
ReadPath == {"CanAccess", "Identify"}

\* The step is one of a CanAccess or an Identify: the call begins, moves
\* on, or returns.
ReadPathStep ==
    \/ last'.op \in ReadPath
    \/ \E p \in Procs : proc'[p] # proc[p] /\ proc'[p].op \in ReadPath

\* The step removes no entry: every key the thing cache resolved is still
\* resolved, every membership the channel cache held is still held.
NoEntryRemoved ==
    /\ \A k \in Keys : thingCache[k] # None => thingCache'[k] # None
    /\ channelCache \subseteq channelCache'

\* C14: under any interleaving, no step of a CanAccess or an Identify
\* removes an entry from the thing cache or the channel cache; the step on
\* which such a call returns ErrUnauthorizedAccess changes neither cache,
\* and the call has written to neither before.
C14_ReadPathNeverInvalidates ==
    /\ [][ReadPathStep => NoEntryRemoved]_vars
    /\ [][(last'.op \in ReadPath /\ last'.err = ErrUnauthorizedAccess)
             => cacheVars' = cacheVars]_vars
    /\ []((last.op \in ReadPath /\ last.err = ErrUnauthorizedAccess)
             => last.writes = 0)

\* C14 witness: a CanAccess whose key the thing cache resolved was denied by
\* the repository, and both caches still hold entries: the key's, and a
\* membership of the channel.
C14_Witness ==
    /\ CanAccessReturned /\ last.err = ErrUnauthorizedAccess
    /\ last.hit # None /\ ThingCacheID(last.key) = last.hit
    /\ \E m \in channelCache : m[1] = last.chan
    /\ last.rerr = ErrUnauthorizedAccess

\* The step is goroutine p's thingCache.Save / channelCache.Connect.
SavesKey(p)    == proc[p].pc = "save" /\ proc'[p].pc # "save"
ConnectsChan(p) == proc[p].pc = "connect" /\ proc'[p].pc # "connect"

\* What the repository holds at the instant of the step backs the entry
\* goroutine p writes.
WriteBacked(p) ==
    /\ SavesKey(p) => RetrieveByKey(proc[p].key) = proc[p].id
    /\ ConnectsChan(p) => <<proc[p].chan, proc[p].id>> \in connections

\* C15: under any interleaving, whenever an Identify or a CanAccess writes
\* key -> d into the thing cache the repository maps key to d at that
\* instant, and whenever a CanAccess writes (C, d) into the channel cache
\* the repository has d connected to C at that instant.
C15_WritesBackedByRepository ==
    [][\A p \in Procs : WriteBacked(p)]_vars

\* The repository calls a CanAccess or an Identify in flight has made, by
\* where it is: none before its repository step, one after it.
CallsInFlight ==
    \A p \in Procs :
        proc[p].op \in ReadPath =>
            proc[p].calls = IF proc[p].pc \in {"save", "connect"} THEN 1 ELSE 0

\* A CanAccess whose channel-cache lookup misses goes to the repository.
ChannelMissFallsBack ==
    \A p \in Procs :
        (/\ proc[p].pc = "hasThing" /\ proc'[p] # proc[p]
         /\ ~ChannelCacheHasThing(proc[p].chan, proc[p].id))
            => (proc'[p].pc = "fallback" /\ proc'[p].calls = 0)

\* C16: under any interleaving, an Identify returns after no repository
\* call when the thing cache held the key and after exactly one when it did
\* not; a CanAccess returns after no repository call only when it returns
\* the cached id from the fast path, and after exactly one otherwise
\* (whether the thing cache or the channel cache missed); no call makes
\* more than one.
C16_RepositoryCalls ==
    /\ [](IdentifyReturned => last.calls = IF last.hit # None THEN 0 ELSE 1)
    /\ [](CanAccessReturned =>
             /\ last.calls \in {0, 1}
             /\ last.hit = None => last.calls = 1
             /\ last.calls = 0 <=> /\ last.hit # None /\ last.id = last.hit
                                   /\ last.err = ErrNil /\ last.writes = 0)
    /\ []CallsInFlight
    /\ [][ChannelMissFallsBack]_vars

\* C16 witness: a CanAccess whose key the thing cache resolved, and whose
\* membership the channel cache did not hold, returned after one repository
\* call.
C16_Witness ==
    /\ CanAccessReturned /\ last.hit # None /\ ~last.warm
    /\ last.calls = 1 /\ last.err = ErrNil /\ last.id = last.hit

\* ------------------------------------------------- duplicate calls
\* What one CanAccess(c, k) / Identify(k) (c is None), run alone on the
\* caches and the repository as they are, returns and leaves in the caches:
\* the cached id and the caches as they are on the fast path, else the
\* repository's id, saved (id None: the call fails).
SingleCall(op, c, k) ==
    LET hit  == ThingCacheID(k)
        fast == /\ hit # None
                /\ op = "CanAccess" => ChannelCacheHasThing(c, hit)
        d    == IF op = "CanAccess" THEN HasThing(c, k) ELSE RetrieveByKey(k)
    IN  IF fast \/ d = None
        THEN [id |-> IF fast THEN hit ELSE None,
              thingCache |-> thingCache, channelCache |-> channelCache]
        ELSE [id |-> d, thingCache |-> ThingCacheSave(k, d),
              channelCache |-> IF op = "CanAccess"
                               THEN ChannelCacheConnect(c, d) ELSE channelCache]

\* A sequential run goes on with overlapping calls of `op` with the same
\* arguments and nothing else, so the repository stays as it is; `run.dup`
\* keeps the arguments and what a single such call would give.  Only where
\* such a call can succeed.
Concurrently(op, c, k) ==
    LET one == SingleCall(op, c, k)
    IN  /\ run.seq /\ run.dup = NoDup /\ AllIdle
        /\ (op = "Identify") <=> (c = None)
        /\ one.id # None
        /\ run' = [run EXCEPT !.seq = FALSE,
                              !.dup = [op |-> op, chan |-> c, key |-> k,
                                       id |-> one.id,
                                       thingCache |-> one.thingCache,
                                       channelCache |-> one.channelCache]]
        /\ last' = NoCall
        /\ UNCHANGED <<things, thingCount, channels, chanCount, connections,
                       cacheVars, proc>>

\* A step of one of the duplicate calls.
DupCall ==
    \/ \E p \in Procs : /\ run.dup.op = "CanAccess"
                        /\ CanAccessBegin(p, run.dup.chan, run.dup.key)
    \/ \E p \in Procs : run.dup.op = "Identify" /\ IdentifyBegin(p, run.dup.key)
    \/ \E p \in Procs : CanAccessCached(p)
    \/ \E p \in Procs, ok \in BOOLEAN : CanAccessRepo(p, ok)
    \/ \E p \in Procs : CanAccessSave(p)
    \/ \E p \in Procs : CanAccessConnect(p)
    \/ \E p \in Procs, ok \in BOOLEAN : IdentifyRetrieve(p, ok)
    \/ \E p \in Procs : IdentifySave(p)

DupNext ==
    \/ run.dup = NoDup /\ Next
    \/ \E op \in ReadPath, c \in KnownChans \cup {None}, k \in Keys :
          Concurrently(op, c, k)
    \/ run.dup # NoDup /\ DupCall

\* Any sequential run, followed by overlapping duplicate calls.
DupSpec == SeqInit /\ [][DupNext]_vars

\* One of the duplicate calls has just returned an id.
DupReturned ==
    run.dup # NoDup /\ last.op = run.dup.op /\ last.err = ErrNil

\* C17: when CanAccess(C, k) calls (or Identify(k) calls) with the same
\* arguments overlap on an unchanged repository, each one that succeeds
\* returns the id a single such call returns, and when it returns both
\* caches are as a single such call leaves them, whatever the other calls
\* have done or are still to do.
C17_DuplicatePopulationBenign ==
    DupReturned
        => /\ last.id = run.dup.id
           /\ thingCache = run.dup.thingCache
           /\ channelCache = run.dup.channelCache

\* C17 witness: two CanAccess(C, k) missed the caches together; one has
\* made both its writes and returned, the other has saved the key and is
\* about to store the membership again.
C17_Witness ==
    /\ DupReturned /\ last.op = "CanAccess"
    /\ last.hit = None /\ last.writes = 2
    /\ \E p \in Procs :
          /\ proc[p].op = "CanAccess" /\ proc[p].pc = "connect"
          /\ proc[p].hit = None /\ proc[p].id = last.id

\* ------------------------------------------------------- liveness
\* The steps of a CanAccess or an Identify in flight that are calls to a
\* cache.
CacheStep(p) ==
    \/ CanAccessCached(p)
    \/ CanAccessSave(p)
    \/ CanAccessConnect(p)
    \/ IdentifySave(p)

\* Overlapping calls whose goroutines keep running and whose cache calls
\* return.  The repository steps get no fairness: channels.HasThing and
\* things.RetrieveByKey are called without a context or a deadline
\* (service.go:371, 387), so they return when the repository answers, and a
\* repository that stalls never does.
LiveSpec == Init /\ [][Next]_vars /\ \A p \in Procs : WF_vars(CacheStep(p))

\* C18: every CanAccess and every Identify in flight eventually returns,
\* also when the repository never answers.
C18_EventuallyReturns ==
    \A p \in Procs : (proc[p].op \in ReadPath) ~> (proc[p].op = "idle")

\* The call that returns is a Disconnect, RemoveThing or RemoveChannel whose
\* token users.Identify rejected.
TokenRejected(call) == call.op \in Invalidating /\ ~call.authed

\* C19: under any interleaving, a Disconnect, RemoveThing or RemoveChannel
\* whose token the users service rejects returns ErrUnauthorizedAccess on a
\* step that changes neither cache and nothing in the repositories, having
\* made no repository call and no cache write: the entries it names are
\* still cached.
C19_RejectedTokenChangesNothing ==
    /\ [][TokenRejected(last')
            => /\ last'.err = ErrUnauthorizedAccess
               /\ UNCHANGED <<things, channels, connections, cacheVars>>]_vars
    /\ [](TokenRejected(last)
            => /\ last.calls = 0 /\ last.writes = 0
               /\ last.warm => HoldsEntryOf(last.op, last.chan, last.thing))

\* C19 witness: a RemoveThing with a rejected token returned
\* ErrUnauthorizedAccess, and the thing cache still resolves a key to the
\* thing it named, which the repository still holds.
C19_Witness ==
    /\ TokenRejected(last) /\ last.op = "RemoveThing"
    /\ last.err = ErrUnauthorizedAccess
    /\ last.warm /\ HoldsEntryOf(last.op, last.chan, last.thing)
    /\ things[last.thing] # None

====
